---- MODULE Spec2Model ----
(***************************************************************************)
(* Pulse-program analyzer of spacq.interface.pulse: the Environment and    *)
(* the four tree traversals (declarations, values, commands, waveforms)    *)
(* as driven by spacq/interface/pulse/tests/test_tree.py.                  *)
(*                                                                         *)
(* Units: a Quantity of time is a whole number of ns (one sample at the   *)
(* 1 GHz sampling rate of the tests), a Quantity of voltage a whole number *)
(* of mV; a wave sample is in thousandths, so 1 V is the sample 1000.      *)
(***************************************************************************)
EXTENDS Integers, Sequences, FiniteSets, TLC

\* Bounds of the exploration.
MaxPatches == 2
MaxErrors == 1
MaxCalls == 2

\* Full scale of a wave sample (1.0) in thousandths.
FullScale == 1000

(***************************************************************************)
(* Values: Quantity, int, float and string literals.                       *)
(***************************************************************************)
Quantity(n, dim) == [ty |-> "quantity", dim |-> dim, n |-> n, s |-> ""]
IntV(n) == [ty |-> "int", dim |-> "", n |-> n, s |-> ""]
FloatV(n) == [ty |-> "float", dim |-> "", n |-> n, s |-> ""]
StrV(s) == [ty |-> "string", dim |-> "", n |-> 0, s |-> s]

IsTime(v) == v.ty = "quantity" /\ v.dim = "time"
IsVoltage(v) == v.ty = "quantity" /\ v.dim = "voltage"

(***************************************************************************)
(* AST nodes.  A declaration statement with several names is one Decl node *)
(* per name, in order; binds are the values given with the declaration     *)
(* (attribute suffix and value).                                           *)
(***************************************************************************)
Bind(attr, val) == [attr |-> attr, val |-> val]
Decl(kind, name, binds) == [t |-> "decl", kind |-> kind, name |-> name, binds |-> binds]
Assign(target, val) == [t |-> "assign", target |-> target, val |-> val]
NameItem(name) == [isname |-> TRUE, name |-> name, val |-> IntV(0)]
DelayItem(q) == [isname |-> FALSE, name |-> "", val |-> q]
Branch(items, outputs) == [items |-> items, outputs |-> outputs]
PulseSequence(branches) == [t |-> "sequence", branches |-> branches]
Bare(item) == PulseSequence(<<Branch(<<item>>, <<>>)>>)
CountName(name) == [isname |-> TRUE, name |-> name, n |-> 0]
CountLit(n) == [isname |-> FALSE, name |-> "", n |-> n]
Loop(count, body) == [t |-> "loop", count |-> count, body |-> body]
Acquire == [t |-> "acquire"]

Error(msg, at) == [msg |-> msg, at |-> at]

stages == <<"declarations", "values", "commands", "waveforms">>
StageSet == {stages[i] : i \in DOMAIN stages}

AcqMarker == "_acq_marker"

VARIABLES prog, stage, variables, values, missing_values, errors, waveforms,
          acquisition, raised, lastop, lastarg, done, before, failed, patches,
          quantities, parsed, answer,
          written, thrown, lastset, calls

\* The Environment and its caller.
tvars == <<prog, stage, variables, values, missing_values, errors, waveforms,
           acquisition, raised, lastop, lastarg, done, before, failed, patches>>
\* Two Quantity objects, the text each was parsed from and the outcome of
\* the last operation on them.
uvars == <<quantities, parsed, answer>>
\* What each instrument was sent, the exception of the last assignment,
\* the assignment itself and the number of assignments so far.
dvars == <<written, thrown, lastset, calls>>

vars == <<tvars, uvars, dvars>>

\* The empty mapping.
Empty == [x \in {} |-> 0]

(***************************************************************************)
(* declarations stage                                                      *)
(***************************************************************************)
\* Bug: the acquisition pseudo-variable is not declared.
InitVariablesNoAcq == Empty

\* Environment(): the acquisition pseudo-variable is always declared.
InitVariables == (AcqMarker :> "acq_marker")

\* Bug: a re-declaration goes unreported.
DeclareOneUnreported(st, node) ==
    IF node.name \in DOMAIN st.variables
    THEN st
    ELSE [st EXCEPT !.variables = @ @@ (node.name :> node.kind)]

\* One declaration: insert the name, or record a re-declaration error and
\* keep the first kind.
DeclareOne(st, node) ==
    IF node.name \in DOMAIN st.variables
    THEN [st EXCEPT !.errors = Append(@, Error("Re-declaration", <<node.name>>))]
    ELSE [st EXCEPT !.variables = @ @@ (node.name :> node.kind)]

RECURSIVE DeclarationsWalk(_, _)
DeclarationsWalk(st, nodes) ==
    IF nodes = <<>> THEN st
    ELSE DeclarationsWalk(
            IF Head(nodes).t = "decl" THEN DeclareOne(st, Head(nodes)) ELSE st,
            Tail(nodes))

(***************************************************************************)
(* values stage and set_value                                              *)
(***************************************************************************)
PulseAttrs == {"shape", "length", "amplitude"}
AcqAttrs == {"num", "output"}

\* Bug: a delay is not required to have a value.
RequiredPathsNoDelay(name, kind) ==
    CASE kind = "pulse" -> {<<name, a>> : a \in {"shape", "length", "amplitude"}}
      [] kind = "acq_marker" -> {<<name, a>> : a \in {"num", "output"}}
      [] kind = "int" -> {<<name>>}
      [] OTHER -> {}

\* Attribute paths the language requires of a variable of the given kind.
RequiredPaths(name, kind) ==
    CASE kind = "pulse" -> {<<name, a>> : a \in PulseAttrs}
      [] kind = "acq_marker" -> {<<name, a>> : a \in AcqAttrs}
      [] kind = "delay" -> {<<name>>}
      [] kind = "int" -> {<<name>>}
      [] OTHER -> {}

Required(vs) == UNION {RequiredPaths(n, vs[n]) : n \in DOMAIN vs}

\* Type and dimension rules of an assignment; "ok" or the error's message.
Validate(vs, path, val) ==
    IF path[1] \notin DOMAIN vs THEN "Undeclared"
    ELSE LET kind == vs[path[1]] IN
      CASE kind = "output" -> "Cannot assign"
        [] kind = "int" ->
             IF Len(path) # 1 THEN "Unrecognized attribute"
             ELSE IF val.ty = "int" THEN "ok" ELSE "Must assign"
        [] kind = "delay" ->
             IF Len(path) # 1 THEN "Unrecognized attribute"
             ELSE IF IsTime(val) THEN "ok" ELSE "Must assign"
        [] kind = "pulse" ->
             IF Len(path) = 1 THEN "Must assign"
             ELSE CASE path[2] = "shape" -> IF val.ty = "string" THEN "ok" ELSE "Must assign"
                    [] path[2] = "length" -> IF IsTime(val) THEN "ok" ELSE "Must assign"
                    [] path[2] = "amplitude" -> IF IsVoltage(val) THEN "ok" ELSE "Must assign"
                    [] OTHER -> "Unrecognized attribute"
        [] kind = "acq_marker" ->
             IF Len(path) = 1 THEN "Must assign"
             ELSE CASE path[2] = "num" -> IF val.ty = "int" THEN "ok" ELSE "Must assign"
                    [] path[2] = "output" -> IF val.ty = "string" THEN "ok" ELSE "Must assign"
                    [] OTHER -> "Unrecognized attribute"
        [] OTHER -> "Cannot assign"

\* The validated write: bind the value (a bound path is overwritten and
\* reported as a re-assignment) or record why it cannot be bound.
ValidatedWrite(st, path, val) ==
    LET r == Validate(st.variables, path, val) IN
    IF r # "ok" THEN [st EXCEPT !.errors = Append(@, Error(r, path))]
    ELSE [st EXCEPT !.values = (path :> val) @@ @,
                    !.missing_values = @ \ {path},
                    !.errors = IF path \in DOMAIN st.values
                               THEN Append(@, Error("Re-assignment", path)) ELSE @]

\* Bug: an undeclared name is recorded in env.errors instead of raised.
set_valueSoft(st, path, val) ==
    [ValidatedWrite(st, path, val) EXCEPT !.raised = "none"]

\* set_value(path, value) called by the user of the Environment.
set_value(st, path, val) ==
    IF path[1] \notin DOMAIN st.variables
    THEN [st EXCEPT !.raised = "KeyError"]
    ELSE [ValidatedWrite(st, path, val) EXCEPT !.raised = "none"]

RECURSIVE BindAll(_, _, _)
BindAll(st, name, binds) ==
    IF binds = <<>> THEN st
    ELSE BindAll(ValidatedWrite(st, <<name>> \o Head(binds).attr, Head(binds).val),
                 name, Tail(binds))

ValuesVisit(st, node) ==
    CASE node.t = "decl" -> BindAll(st, node.name, node.binds)
      [] node.t = "assign" -> ValidatedWrite(st, node.target, node.val)
      [] OTHER -> st

RECURSIVE ValuesWalk(_, _)
ValuesWalk(st, nodes) ==
    IF nodes = <<>> THEN st
    ELSE ValuesWalk(ValuesVisit(st, Head(nodes)), Tail(nodes))

RECURSIVE MustAssignAll(_, _)
MustAssignAll(errs, paths) ==
    IF paths = {} THEN errs
    ELSE LET p == CHOOSE q \in paths : TRUE
         IN MustAssignAll(Append(errs, Error("Must assign", p)), paths \ {p})

\* Bug: what is missing is also reported as a "Must assign" error.
ValuesPostReporting(st) ==
    LET missing == Required(st.variables) \ DOMAIN st.values IN
    [st EXCEPT !.missing_values = missing, !.errors = MustAssignAll(@, missing)]

\* End of the values pass: what is required and unbound is missing.
ValuesPost(st) ==
    [st EXCEPT !.missing_values = Required(st.variables) \ DOMAIN st.values]

(***************************************************************************)
(* commands stage                                                          *)
(***************************************************************************)
KindOf(vs, name) == IF name \in DOMAIN vs THEN vs[name] ELSE "undeclared"

CheckItem(st, item) ==
    IF item.isname
    THEN IF KindOf(st.variables, item.name) \in {"delay", "pulse"} THEN st
         ELSE [st EXCEPT !.errors = Append(@, Error("Not a declared delay or pulse", <<item.name>>))]
    ELSE IF IsTime(item.val) THEN st
         ELSE [st EXCEPT !.errors = Append(@, Error("Delay must be a time", <<item.val.dim>>))]

CheckOutput(st, name) ==
    IF KindOf(st.variables, name) = "output" THEN st
    ELSE [st EXCEPT !.errors = Append(@, Error("Not a declared output", <<name>>))]

RECURSIVE CheckItems(_, _)
CheckItems(st, items) ==
    IF items = <<>> THEN st
    ELSE CheckItems(CheckItem(st, Head(items)), Tail(items))

RECURSIVE CheckOutputs(_, _)
CheckOutputs(st, outs) ==
    IF outs = <<>> THEN st
    ELSE CheckOutputs(CheckOutput(st, Head(outs)), Tail(outs))

RECURSIVE CheckBranches(_, _)
CheckBranches(st, bs) ==
    IF bs = <<>> THEN st
    ELSE CheckBranches(CheckOutputs(CheckItems(st, Head(bs).items), Head(bs).outputs), Tail(bs))

CheckCount(st, count) ==
    IF count.isname
    THEN IF KindOf(st.variables, count.name) = "int" THEN st
         ELSE [st EXCEPT !.errors = Append(@, Error("Repetition count must be int", <<count.name>>))]
    ELSE IF count.n >= 0 THEN st
         ELSE [st EXCEPT !.errors = Append(@, Error("Repetition count must be non-negative", <<>>))]

\* Bug: a repeated acquire goes unreported.
CheckAcquireSilent(st) == [st EXCEPT !.acquisition = TRUE]

\* The first acquire sets env.acquisition, each later one is an error.
CheckAcquire(st) ==
    IF st.acquisition
    THEN [st EXCEPT !.errors = Append(@, Error("Repeated acquire", <<>>))]
    ELSE [st EXCEPT !.acquisition = TRUE]

RECURSIVE CommandsWalk(_, _)
CommandsWalk(st, nodes) ==
    IF nodes = <<>> THEN st
    ELSE LET node == Head(nodes)
             st1 == CASE node.t = "sequence" -> CheckBranches(st, node.branches)
                      [] node.t = "loop" -> CommandsWalk(CheckCount(st, node.count), node.body)
                      [] node.t = "acquire" -> CheckAcquire(st)
                      [] OTHER -> st
         IN CommandsWalk(st1, Tail(nodes))

(***************************************************************************)
(* waveforms stage                                                         *)
(***************************************************************************)
Outputs(vs) == {n \in DOMAIN vs : vs[n] = "output"}

RECURSIVE Repeat(_, _)
Repeat(seq, n) == IF n <= 0 THEN <<>> ELSE seq \o Repeat(seq, n - 1)

Failed == [ok |-> FALSE, s |-> <<>>]
Samples(s) == [ok |-> TRUE, s |-> s]

\* A square pulse holds its amplitude for its length and returns to zero.
Square(length, amplitude) == Repeat(<<amplitude>>, length) \o <<0>>

\* Any other shape is a curve read from a file, one point per sample,
\* scaled by the amplitude (here a ramp).
NonSquare(length, amplitude) == [i \in 1..length |-> (amplitude * i) \div length]

PulseSamples(vals, name) ==
    IF {<<name, a>> : a \in PulseAttrs} \subseteq DOMAIN vals
    THEN LET length == vals[<<name, "length">>].n
             amplitude == vals[<<name, "amplitude">>].n
         IN IF amplitude > FullScale \/ amplitude < -FullScale THEN Failed
            ELSE IF vals[<<name, "shape">>].s = "square"
                 THEN Samples(Square(length, amplitude))
                 ELSE Samples(NonSquare(length, amplitude))
    ELSE Failed

ItemSamples(st, item) ==
    IF item.isname
    THEN CASE KindOf(st.variables, item.name) = "delay" ->
                IF <<item.name>> \in DOMAIN st.values
                THEN Samples(Repeat(<<0>>, st.values[<<item.name>>].n))
                ELSE Failed
           [] KindOf(st.variables, item.name) = "pulse" -> PulseSamples(st.values, item.name)
           [] OTHER -> Failed
    ELSE IF IsTime(item.val) THEN Samples(Repeat(<<0>>, item.val.n)) ELSE Failed

RECURSIVE BranchSamples(_, _)
BranchSamples(st, items) ==
    IF items = <<>> THEN Samples(<<>>)
    ELSE LET h == ItemSamples(st, Head(items))
             t == BranchSamples(st, Tail(items))
         IN IF h.ok /\ t.ok THEN Samples(h.s \o t.s) ELSE Failed

Range(seq) == {seq[i] : i \in DOMAIN seq}

Max(S) == CHOOSE x \in S : \A y \in S : y <= x

\* Bug: an output is not padded to the longest branch of the group.
RenderSequenceUnpadded(st, rs, node) ==
    LET bs == node.branches
        each == [i \in DOMAIN bs |-> BranchSamples(st, bs[i].items)]
        good == /\ \A i \in DOMAIN bs : each[i].ok
                /\ \A i \in DOMAIN bs : Range(bs[i].outputs) \subseteq DOMAIN rs.wave
        mine(o) == {i \in DOMAIN bs : o \in Range(bs[i].outputs)}
        played(o) == IF mine(o) = {} THEN <<>>
                     ELSE each[CHOOSE i \in mine(o) : \A j \in mine(o) : i <= j].s
    IN IF ~good THEN [rs EXCEPT !.ok = FALSE]
       ELSE [rs EXCEPT
               !.wave = [o \in DOMAIN rs.wave |-> rs.wave[o] \o played(o)],
               !.marker1 = [o \in DOMAIN rs.marker1 |->
                           rs.marker1[o] \o Repeat(<<o \in rs.high>>, Len(played(o)))]]

\* A parallel group: each branch plays on its outputs, every output is
\* padded with zeros to the longest branch.
RenderSequence(st, rs, node) ==
    LET bs == node.branches
        each == [i \in DOMAIN bs |-> BranchSamples(st, bs[i].items)]
        good == /\ \A i \in DOMAIN bs : each[i].ok
                /\ \A i \in DOMAIN bs : Range(bs[i].outputs) \subseteq DOMAIN rs.wave
        longest == Max({0} \cup {Len(each[i].s) : i \in DOMAIN bs})
        mine(o) == {i \in DOMAIN bs : o \in Range(bs[i].outputs)}
        played(o) == IF mine(o) = {} THEN <<>>
                     ELSE each[CHOOSE i \in mine(o) : \A j \in mine(o) : i <= j].s
    IN IF ~good THEN [rs EXCEPT !.ok = FALSE]
       ELSE [rs EXCEPT
               !.wave = [o \in DOMAIN rs.wave |->
                           rs.wave[o] \o played(o) \o Repeat(<<0>>, longest - Len(played(o)))],
               !.marker1 = [o \in DOMAIN rs.marker1 |->
                           rs.marker1[o] \o Repeat(<<o \in rs.high>>, longest)]]

\* Bug: acquire drives no marker.
RenderAcquireNoMarker(st, rs) ==
    IF /\ {<<AcqMarker, a>> : a \in AcqAttrs} \subseteq DOMAIN st.values
       /\ st.values[<<AcqMarker, "output">>].s \in DOMAIN rs.wave
    THEN rs
    ELSE [rs EXCEPT !.ok = FALSE]

\* acquire: marker 1 of the acquisition output is high from here on; no
\* sample is added.
RenderAcquire(st, rs) ==
    IF /\ {<<AcqMarker, a>> : a \in AcqAttrs} \subseteq DOMAIN st.values
       /\ st.values[<<AcqMarker, "output">>].s \in DOMAIN rs.wave
    THEN IF st.values[<<AcqMarker, "num">>].n = 1
         THEN [rs EXCEPT !.high = @ \cup {st.values[<<AcqMarker, "output">>].s}]
         ELSE rs
    ELSE [rs EXCEPT !.ok = FALSE]

CountValue(st, count) ==
    IF count.isname
    THEN IF KindOf(st.variables, count.name) = "int" /\ <<count.name>> \in DOMAIN st.values
         THEN st.values[<<count.name>>].n ELSE -1
    ELSE count.n

RECURSIVE WaveformsWalk(_, _, _)
\* Bug: the body's segment is appended once whatever the count.
RenderLoopOnce(st, rs, node) ==
    LET n == CountValue(st, node.count)
        fresh == [rs EXCEPT !.wave = [o \in DOMAIN rs.wave |-> <<>>],
                            !.marker1 = [o \in DOMAIN rs.marker1 |-> <<>>]]
        seg == WaveformsWalk(st, fresh, node.body)
    IN IF n < 0 \/ ~seg.ok THEN [rs EXCEPT !.ok = FALSE]
       ELSE [rs EXCEPT
               !.wave = [o \in DOMAIN rs.wave |-> rs.wave[o] \o seg.wave[o]],
               !.marker1 = [o \in DOMAIN rs.marker1 |-> rs.marker1[o] \o seg.marker1[o]],
               !.high = seg.high]

\* times N { body }: the body is rendered once and its segment of every
\* output is appended N times.
RenderLoop(st, rs, node) ==
    LET n == CountValue(st, node.count)
        fresh == [rs EXCEPT !.wave = [o \in DOMAIN rs.wave |-> <<>>],
                            !.marker1 = [o \in DOMAIN rs.marker1 |-> <<>>]]
        seg == WaveformsWalk(st, fresh, node.body)
    IN IF n < 0 \/ ~seg.ok THEN [rs EXCEPT !.ok = FALSE]
       ELSE [rs EXCEPT
               !.wave = [o \in DOMAIN rs.wave |-> rs.wave[o] \o Repeat(seg.wave[o], n)],
               !.marker1 = [o \in DOMAIN rs.marker1 |-> rs.marker1[o] \o Repeat(seg.marker1[o], n)],
               !.high = IF n > 0 THEN seg.high ELSE @]

WaveformsWalk(st, rs, nodes) ==
    IF nodes = <<>> \/ ~rs.ok THEN rs
    ELSE LET node == Head(nodes)
             rs1 == CASE node.t = "sequence" -> RenderSequence(st, rs, node)
                      [] node.t = "loop" -> RenderLoop(st, rs, node)
                      [] node.t = "acquire" -> RenderAcquire(st, rs)
                      [] OTHER -> rs
         IN WaveformsWalk(st, rs1, Tail(nodes))

StartRender(vs) ==
    [ok |-> TRUE, wave |-> [o \in Outputs(vs) |-> <<>>],
     marker1 |-> [o \in Outputs(vs) |-> <<>>], high |-> {}]

Waveform(wave, marker1) ==
    [wave |-> wave, marker1 |-> marker1, marker2 |-> [i \in DOMAIN wave |-> FALSE]]

\* Bug: a pass that cannot render records an error and returns.
WaveformsStageSoft(st, nodes) ==
    LET rs == WaveformsWalk(st, StartRender(st.variables), nodes) IN
    IF rs.ok
    THEN [st EXCEPT !.waveforms = [o \in DOMAIN rs.wave |-> Waveform(rs.wave[o], rs.marker1[o])]]
    ELSE [st EXCEPT !.waveforms = Empty, !.errors = Append(@, Error("Must assign", <<>>))]

\* The whole waveforms pass: the Waveform of every output, or ValueError.
WaveformsStage(st, nodes) ==
    LET rs == WaveformsWalk(st, StartRender(st.variables), nodes) IN
    IF rs.ok
    THEN [st EXCEPT !.waveforms = [o \in DOMAIN rs.wave |-> Waveform(rs.wave[o], rs.marker1[o])]]
    ELSE [st EXCEPT !.waveforms = Empty, !.raised = "ValueError"]

(***************************************************************************)
(* traverse_tree: one whole pass over the program in the current stage.    *)
(* A pass starts from its own outputs reset; env.errors accumulates until  *)
(* the caller clears it.                                                   *)
(***************************************************************************)
IsDeclaration(node) == node.t = "decl"
IsValueNode(node) == node.t \in {"decl", "assign"}
IsCommand(node) == node.t \in {"sequence", "loop", "acquire"}

traverse_tree(st, nodes, s) ==
    CASE s = "declarations" ->
           DeclarationsWalk([st EXCEPT !.variables = InitVariables],
                            SelectSeq(nodes, IsDeclaration))
      [] s = "values" ->
           ValuesPost(ValuesWalk([st EXCEPT !.values = Empty, !.missing_values = {}],
                                 SelectSeq(nodes, IsValueNode)))
      [] s = "commands" ->
           CommandsWalk([st EXCEPT !.acquisition = FALSE], SelectSeq(nodes, IsCommand))
      [] s = "waveforms" ->
           WaveformsStage([st EXCEPT !.waveforms = Empty], SelectSeq(nodes, IsCommand))

(***************************************************************************)
(* The programs explored, after the programs of test_tree.py.              *)
(***************************************************************************)
ns(n) == Quantity(n, "time")
mV(n) == Quantity(n, "voltage")
NoBind == <<>>
Top(val) == <<Bind(<<>>, val)>>

DeclsValid ==
    << Decl("int", "repeat", Top(IntV(2))),
       Decl("delay", "abc1", Top(ns(2))),
       Decl("delay", "def2", NoBind),
       Decl("pulse", "ghi1", NoBind),
       Decl("pulse", "jkl2", <<Bind(<<"shape">>, StrV("square"))>>),
       Decl("output", "mno1", NoBind),
       Decl("output", "pqr2", NoBind) >>

DeclsAgain ==
    DeclsValid \o
    << Decl("delay", "abc1", Top(ns(3))),
       Decl("pulse", "def2", NoBind),
       Decl("delay", "stu3", NoBind) >>

DeclsOne == << Decl("delay", "def2", NoBind) >>

AssignsNone == <<>>

AssignsSome ==
    << Assign(<<"ghi1", "shape">>, StrV("non-square")),
       Assign(<<"ghi1", "length">>, ns(2)),
       Assign(<<"ghi1", "amplitude">>, mV(500)),
       Assign(<<"jkl2", "amplitude">>, mV(1000)) >>

AssignsAll ==
    AssignsSome \o
    << Assign(<<"jkl2", "length">>, ns(2)),
       Assign(<<"def2">>, ns(1)) >>

AssignsBad ==
    << Assign(<<"mno1">>, StrV("test")),
       Assign(<<"def2">>, IntV(6)),
       Assign(<<"def2">>, Quantity(6, "frequency")),
       Assign(<<"ghi1">>, IntV(0)),
       Assign(<<"ghi1", "shape">>, ns(50)),
       Assign(<<"repeat">>, FloatV(2)),
       Assign(<<"zzz1">>, ns(5)),
       Assign(<<"ghi1", "something_else">>, IntV(5)),
       Assign(<<"jkl2", "length">>, ns(2)) >>

CommandsTest ==
    << Bare(NameItem("abc1")),
       PulseSequence(<<Branch(<<DelayItem(ns(1))>>, <<"pqr2">>)>>),
       Loop(CountName("repeat"),
            << Bare(NameItem("def2")),
               PulseSequence(<<Branch(<<NameItem("ghi1")>>, <<"mno1">>)>>),
               PulseSequence(<<Branch(<<NameItem("ghi1"), NameItem("abc1"),
                                        DelayItem(ns(1)), NameItem("jkl2")>>, <<"mno1">>),
                               Branch(<<NameItem("def2"), NameItem("jkl2"),
                                        NameItem("def2")>>, <<"pqr2">>)>>) >>),
       Acquire,
       Bare(DelayItem(ns(2))) >>

CommandsDelay == << Bare(NameItem("def2")) >>

CommandsAcquire ==
    << Bare(NameItem("abc1")),
       Acquire,
       PulseSequence(<<Branch(<<NameItem("jkl2")>>, <<"pqr2">>)>>) >>

CommandsTimes ==
    << Loop(CountLit(0), <<Bare(NameItem("abc1"))>>),
       PulseSequence(<<Branch(<<NameItem("jkl2")>>, <<"mno1">>)>>),
       Loop(CountLit(2),
            << PulseSequence(<<Branch(<<NameItem("jkl2")>>, <<"mno1">>),
                               Branch(<<NameItem("abc1")>>, <<"pqr2">>)>>) >>) >>

CommandsBad ==
    << Bare(NameItem("abc1")),
       Loop(CountName("repeat"),
            << Bare(NameItem("def2")), Acquire, Bare(NameItem("mno1")) >>),
       Acquire,
       Loop(CountName("ghi1"), <<>>),
       Acquire,
       Bare(DelayItem(Quantity(1, "current"))) >>

CommandOptions == {CommandsTest, CommandsDelay, CommandsAcquire, CommandsTimes, CommandsBad}

\* The last program is the one of InvalidTreeTest.testWaveforms.
Programs ==
    {DeclsValid \o AssignsAll \o c : c \in CommandOptions}
    \cup {DeclsValid \o AssignsSome \o c : c \in CommandOptions \ {CommandsBad}}
    \cup {DeclsValid \o AssignsBad \o CommandsDelay}
    \cup {DeclsAgain \o AssignsSome \o c : c \in {CommandsDelay, CommandsTest}}
    \cup {DeclsOne \o AssignsNone \o CommandsDelay}

\* Values the caller supplies later through set_value.
Updates ==
    { <<<<AcqMarker, "num">>, IntV(1)>>,
      <<<<AcqMarker, "output">>, StrV("mno1")>>,
      <<<<"def2">>, ns(1)>>,
      <<<<"jkl2", "length">>, ns(2)>>,
      <<<<"xyz">>, StrV("zyx")>> }

(***************************************************************************)
(* units: numbers.  A float is the decimal m * 10^e with no trailing zero  *)
(* in m, so that equal numbers are equal records.                          *)
(***************************************************************************)
Dec(m, e) == [m |-> m, e |-> e]

RECURSIVE Norm(_)
Norm(d) ==
    IF d.m = 0 THEN Dec(0, 0)
    ELSE IF d.m % 10 = 0 THEN Norm(Dec(d.m \div 10, d.e + 1))
    ELSE d

Abs(n) == IF n < 0 THEN 0 - n ELSE n
Sgn(n) == IF n < 0 THEN 0 - 1 ELSE IF n = 0 THEN 0 ELSE 1

RECURSIVE Digits(_)
Digits(n) == IF n < 10 THEN 1 ELSE 1 + Digits(n \div 10)

RECURSIVE Pow10(_)
Pow10(k) == IF k <= 0 THEN 1 ELSE 10 * Pow10(k - 1)

\* floor(log10(abs(d))) of a non-zero number.
Order10(d) == Digits(Abs(d.m)) - 1 + d.e

\* d * 10^k
Scale(d, k) == Norm(Dec(d.m, d.e + k))

\* -1, 0 or 1 as abs(x) is below, equal to or above abs(y), both non-zero.
CmpAbs(x, y) ==
    IF Order10(x) # Order10(y)
    THEN (IF Order10(x) < Order10(y) THEN 0 - 1 ELSE 1)
    ELSE LET e == IF x.e < y.e THEN x.e ELSE y.e
             xm == Abs(x.m) * Pow10(x.e - e)
             ym == Abs(y.m) * Pow10(y.e - e)
         IN Sgn(xm - ym)

\* -1, 0 or 1 as x is below, equal to or above y.
Cmp(x, y) ==
    IF Sgn(x.m) # Sgn(y.m) THEN (IF Sgn(x.m) < Sgn(y.m) THEN 0 - 1 ELSE 1)
    ELSE IF Sgn(x.m) = 0 THEN 0
    ELSE Sgn(x.m) * CmpAbs(x, y)

(***************************************************************************)
(* units.SIValues and units.Quantity                                       *)
(***************************************************************************)
dimensions == {"time", "frequency", "voltage", "current"}

\* The unit of each dimension.
units_ == [d \in dimensions |->
             CASE d = "time" -> "s"
               [] d = "frequency" -> "Hz"
               [] d = "voltage" -> "V"
               [] d = "current" -> "A"]

\* The SI prefixes with their powers of ten.
prefixes ==
    ("Y" :> 24) @@ ("Z" :> 21) @@ ("E" :> 18) @@ ("P" :> 15) @@ ("T" :> 12)
    @@ ("G" :> 9) @@ ("M" :> 6) @@ ("k" :> 3) @@ ("h" :> 2) @@ ("da" :> 1)
    @@ ("" :> 0)
    @@ ("d" :> 0 - 1) @@ ("c" :> 0 - 2) @@ ("m" :> 0 - 3) @@ ("u" :> 0 - 6)
    @@ ("n" :> 0 - 9) @@ ("p" :> 0 - 12) @@ ("f" :> 0 - 15) @@ ("a" :> 0 - 18)
    @@ ("z" :> 0 - 21) @@ ("y" :> 0 - 24)

\* original_prefix of a Quantity that was not parsed from text.
None == "None"

\* units.Quantity(value, dimension)
NewQuantity(value, dimension) ==
    [value |-> Norm(value), dimension |-> dimension, original_prefix |-> None]

\* A quantity as text: a number, when the text starts with one, and the
\* symbol after it; the whitespace around them is dropped.
Text(num, sym) == [hasnum |-> TRUE, num |-> Norm(num), sym |-> sym]
NoNumber(sym) == [hasnum |-> FALSE, num |-> Dec(0, 0), sym |-> sym]

\* The ways to read a symbol as a prefix and a unit.
SplitSymbol(sym) ==
    {pd \in (DOMAIN prefixes) \X dimensions : pd[1] \o units_[pd[2]] = sym}

Returned(qq) == [raised |-> "none", q |-> qq]
Raised(e) == [raised |-> e, q |-> NewQuantity(Dec(0, 0), "time")]

\* Quantity.from_string(string): the number times the power of ten of the
\* prefix, in the dimension of the unit; the prefix is kept.
from_string(t) ==
    IF ~t.hasnum \/ SplitSymbol(t.sym) = {} THEN Raised("ValueError")
    ELSE LET pd == CHOOSE x \in SplitSymbol(t.sym) : TRUE IN
         Returned([value |-> Scale(t.num, prefixes[pd[1]]),
                   dimension |-> pd[2],
                   original_prefix |-> pd[1]])

\* int(log10(abs(value))) of a non-zero value: the decimal exponent,
\* cut towards zero.
Magnitude(v) ==
    IF Order10(v) >= 0 \/ Abs(v.m) = 1 THEN Order10(v) ELSE Order10(v) + 1

\* The prefix whose power of ten is nearest to 10^x.
Closest(x) ==
    CHOOSE p \in DOMAIN prefixes :
       \A r \in DOMAIN prefixes : Abs(prefixes[p] - x) <= Abs(prefixes[r] - x)

\* Bug: str() that forgets the prefix the text was written with.
to_stringForgetful(qq) ==
    LET p == IF qq.value.m = 0 THEN "" ELSE Closest(Magnitude(qq.value))
    IN Text(Scale(qq.value, 0 - prefixes[p]), p \o units_[qq.dimension])

\* str(quantity): zero has no prefix, a parsed quantity keeps the prefix
\* of its text, any other takes the prefix nearest to its magnitude.
to_string(qq) ==
    LET p == IF qq.value.m = 0 THEN ""
             ELSE IF qq.original_prefix # None THEN qq.original_prefix
             ELSE Closest(Magnitude(qq.value))
    IN Text(Scale(qq.value, 0 - prefixes[p]), p \o units_[qq.dimension])

Operators == {"==", "!=", "<", "<=", ">", ">="}

Bool(b) == [raised |-> "none", bool |-> b]
Fails(e) == [raised |-> e, bool |-> FALSE]

\* Bug: a comparison that does not look at the dimensions.
compareAnyDimension(op, a, b) ==
    LET c == Cmp(a.value, b.value) IN
    Bool(CASE op = "==" -> c = 0
           [] op = "!=" -> c # 0
           [] op = "<" -> c < 0
           [] op = "<=" -> c <= 0
           [] op = ">" -> c > 0
           [] op = ">=" -> c >= 0)

\* a op b: the dimensions must agree, the values are compared.
compare(op, a, b) ==
    IF a.dimension # b.dimension THEN Fails("IncompatibleDimensions")
    ELSE LET c == Cmp(a.value, b.value) IN
         Bool(CASE op = "==" -> c = 0
                [] op = "!=" -> c # 0
                [] op = "<" -> c < 0
                [] op = "<=" -> c <= 0
                [] op = ">" -> c > 0
                [] op = ">=" -> c >= 0)

\* QuantityTest.data: value, dimension and the text str() gives.
data ==
    << <<Dec(0, 0), "time", Text(Dec(0, 0), "s")>>,
       <<Dec(1, 0), "time", Text(Dec(1, 0), "s")>>,
       <<Dec(10, 0), "current", Text(Dec(1, 0), "daA")>>,
       <<Dec(5, 0 - 1), "frequency", Text(Dec(5, 0 - 1), "Hz")>>,
       <<Dec(0 - 123456789, 0), "frequency", Text(Dec(0 - 123456789, 0 - 9), "GHz")>>,
       <<Dec(3, 40), "current", Text(Dec(3, 16), "YA")>>,
       <<Dec(0 - 3, 40), "current", Text(Dec(0 - 3, 16), "YA")>>,
       <<Dec(7, 0 - 40), "current", Text(Dec(7, 0 - 16), "yA")>>,
       <<Dec(0 - 7, 0 - 40), "current", Text(Dec(0 - 7, 0 - 16), "yA")>> >>

\* The quantities of testComparison and testStrKeepPrefix.
Compared ==
    { <<Dec(1, 0), "time">>, <<Dec(2, 0), "time">>, <<Dec(55, 0 - 1), "time">>,
      <<Dec(54, 0 - 1), "time">>, <<Dec(1, 0), "frequency">>,
      <<Dec(1234, 0), "time">> }

Constructed ==
    {<<data[i][1], data[i][2]>> : i \in DOMAIN data} \cup Compared

\* The texts of testFromString, testBadFromString and testStrKeepPrefix,
\* and one second written in milliseconds.
Strings ==
    { Text(Dec(0, 0), "s"), Text(Dec(500, 0), "ms"), Text(Dec(10, 0), "Hz"),
      Text(Dec(123456789, 0), "ns"), Text(Dec(987654321, 0), "GHz"),
      Text(Dec(0 - 56, 0), "pA"), Text(Dec(5, 0), "s"),
      Text(Dec(123454321, 0), "uHz"), Text(Dec(1234, 0), "ns"),
      Text(Dec(1000, 0), "ms"),
      NoNumber(""), Text(Dec(0, 0), ""), NoNumber("s"), Text(Dec(0, 0), "seconds"),
      Text(Dec(1234, 0), "anything") }

Slots == {1, 2}

NoAnswer == [op |-> "", slot |-> 0, raised |-> "none", bool |-> FALSE,
             text |-> NoNumber("")]

\* No Quantity object exists.
NoQuantities ==
    /\ quantities = <<>>
    /\ parsed = <<>>
    /\ answer = NoAnswer

(***************************************************************************)
(* devices: the values a caller assigns and the text they are sent as.     *)
(* A number is held in thousandths; 1, 1.0 and True are equal numbers of   *)
(* different types.                                                        *)
(***************************************************************************)
PyInt(k) == [ty |-> "int", n |-> k * 1000, s |-> ""]
PyFloat(thousandths) == [ty |-> "float", n |-> thousandths, s |-> ""]
PyBool(b) == [ty |-> "bool", n |-> IF b THEN 1000 ELSE 0, s |-> ""]
PyStr(s) == [ty |-> "str", n |-> 0, s |-> s]

\* a == b
PyEq(a, b) ==
    IF a.ty = "str" \/ b.ty = "str" THEN a.ty = b.ty /\ a.s = b.s
    ELSE a.n = b.n

\* value in allowed
In(value, allowed) == \E a \in allowed : PyEq(a, value)

DigitChars == <<"0", "1", "2", "3", "4", "5", "6", "7", "8", "9">>

RECURSIVE IntStr(_)
IntStr(n) ==
    IF n < 10 THEN DigitChars[n + 1]
    ELSE IntStr(n \div 10) \o DigitChars[(n % 10) + 1]

\* The decimals of a float, from its thousandths.
FracStr(f) ==
    IF f % 100 = 0 THEN DigitChars[(f \div 100) + 1]
    ELSE IF f % 10 = 0 THEN DigitChars[(f \div 100) + 1] \o DigitChars[((f \div 10) % 10) + 1]
    ELSE DigitChars[(f \div 100) + 1] \o DigitChars[((f \div 10) % 10) + 1]
         \o DigitChars[(f % 10) + 1]

\* '{0}'.format(value)
Format(v) ==
    CASE v.ty = "str" -> v.s
      [] v.ty = "bool" -> (IF v.n = 0 THEN "False" ELSE "True")
      [] v.ty = "int" -> IntStr(v.n \div 1000)
      [] v.ty = "float" -> IntStr(v.n \div 1000) \o "." \o FracStr(v.n % 1000)

allowed_nplc ==
    {PyFloat(6), PyFloat(20), PyFloat(60), PyFloat(200),
     PyInt(1), PyInt(2), PyInt(10), PyInt(100)}
allowed_auto_zero == {PyStr("off"), PyStr("on"), PyStr("once")}
allowed_stopafters == {PyStr("runstop"), PyStr("sequence")}

DM == "DM34410A"
DPO == "DPO7104"
Devices == {DM, DPO}

\* self.write(command) on a device.
write(st, dev, command) ==
    [st EXCEPT !.written = [@ EXCEPT ![dev] = Append(@, command)]]

raise(st, exception) == [st EXCEPT !.thrown = exception]

\* Bug: the integration time is sent unchecked.
integration_timeUnchecked(st, value) ==
    write(st, DM, "sense:voltage:dc:nplc " \o Format(value))

\* DM34410A.integration_time = value
integration_time(st, value) ==
    IF ~In(value, allowed_nplc) THEN raise(st, "ValueError")
    ELSE write(st, DM, "sense:voltage:dc:nplc " \o Format(value))

\* DM34410A.auto_zero = value
auto_zero(st, value) ==
    IF ~In(value, allowed_auto_zero) THEN raise(st, "ValueError")
    ELSE write(st, DM, "sense:voltage:dc:zero:auto " \o Format(value))

\* DPO7104.stopafter = value
stopafter(st, value) ==
    IF ~In(value, allowed_stopafters) THEN raise(st, "ValueError")
    ELSE write(st, DPO, "acquire:stopafter " \o Format(value))

reset(st, dev) == write(st, dev, "*rst")
autoset(st) == write(st, DPO, "autoset execute")

Unconnected == [written |-> [d \in Devices |-> <<>>], thrown |-> "none"]

\* DM34410A._connected and DPO7104._connected, one after the other.
Connected ==
    stopafter(autoset(reset(write(reset(Unconnected, DM), DM, "configure:voltage:dc"),
                            DPO)),
              PyStr("sequence"))

\* The values the callers assign.
Settings ==
    allowed_nplc \cup allowed_auto_zero \cup allowed_stopafters
    \cup {PyFloat(1000), PyBool(TRUE), PyInt(3), PyFloat(500), PyInt(0),
          PyStr("1"), PyStr("ON"), PyStr("SEQ")}

Attributes == {"integration_time", "auto_zero", "stopafter"}

NoSet == [dev |-> "", attr |-> "", value |-> PyStr("")]

\* No instrument is connected.
NoDevices ==
    /\ written = Unconnected.written
    /\ thrown = "none"
    /\ lastset = NoSet
    /\ calls = 0

(***************************************************************************)
(* The Environment and its caller.                                         *)
(***************************************************************************)
Env == [variables |-> variables, values |-> values, missing_values |-> missing_values,
        errors |-> errors, waveforms |-> waveforms, acquisition |-> acquisition,
        raised |-> "none"]

\* A new Environment.
Fresh ==
    /\ stage = "none"
    /\ variables = InitVariables
    /\ values = Empty
    /\ missing_values = {}
    /\ errors = <<>>
    /\ waveforms = Empty
    /\ acquisition = FALSE
    /\ raised = "none"
    /\ lastop = "new"
    /\ lastarg = <<>>
    /\ done = {}
    /\ before = {}
    /\ failed = {}
    /\ patches = 0

Init ==
    /\ prog \in Programs
    /\ Fresh
    /\ NoQuantities
    /\ NoDevices

\* Bug: a caller that enters any stage at any time.
CanEnterAny(s, completed) == TRUE

\* The order in which the callers set env.stage: declarations first,
\* values and commands after it, waveforms after all three.
CanEnter(s, completed) ==
    CASE s = "declarations" -> TRUE
      [] s = "values" -> "declarations" \in completed
      [] s = "commands" -> "declarations" \in completed
      [] s = "waveforms" -> {"declarations", "values", "commands"} \subseteq completed

Become(r) ==
    /\ variables' = r.variables
    /\ values' = r.values
    /\ missing_values' = r.missing_values
    /\ errors' = r.errors
    /\ waveforms' = r.waveforms
    /\ acquisition' = r.acquisition
    /\ raised' = r.raised

\* env.stage = s; traverse_tree(prog, env)
Traverse(s) ==
    /\ CanEnter(s, done)
    /\ Len(errors) < MaxErrors
    /\ LET r == traverse_tree(Env, prog, s) IN
         /\ Become(r)
         /\ done' = IF r.raised = "none" THEN done \cup {s} ELSE done
         /\ failed' = IF r.raised = "none" THEN failed ELSE failed \cup {s}
    /\ stage' = s
    /\ before' = done
    /\ lastop' = "traverse"
    /\ lastarg' = <<>>
    /\ UNCHANGED <<prog, patches>>
    /\ UNCHANGED <<uvars, dvars>>

TraverseDeclarations == Traverse("declarations")
TraverseValues == Traverse("values")
TraverseCommands == Traverse("commands")
TraverseWaveforms == Traverse("waveforms")

\* env.set_value(path, value)
SetValue ==
    /\ patches < MaxPatches
    /\ \E u \in Updates :
         /\ Become(set_value(Env, u[1], u[2]))
         /\ lastarg' = u
    /\ patches' = patches + 1
    /\ lastop' = "set_value"
    /\ UNCHANGED <<prog, stage, done, before, failed>>
    /\ UNCHANGED <<uvars, dvars>>

\* env.errors = []
ClearErrors ==
    /\ errors # <<>>
    /\ errors' = <<>>
    /\ lastop' = "clear"
    /\ lastarg' = <<>>
    /\ UNCHANGED <<prog, stage, variables, values, missing_values, waveforms,
                   acquisition, raised, done, before, failed, patches>>
    /\ UNCHANGED <<uvars, dvars>>

Next ==
    \/ TraverseDeclarations
    \/ TraverseValues
    \/ TraverseCommands
    \/ TraverseWaveforms
    \/ SetValue
    \/ ClearErrors

Spec == Init /\ [][Next]_vars

(***************************************************************************)
(* The Quantity objects of a caller.                                       *)
(***************************************************************************)
\* zero = units.Quantity(0, units.SIValues.dimensions.time), twice.
UnitsInit ==
    /\ prog = <<>>
    /\ Fresh
    /\ quantities = [i \in Slots |-> NewQuantity(Dec(0, 0), "time")]
    /\ parsed = [i \in Slots |-> NoNumber("")]
    /\ answer = NoAnswer
    /\ NoDevices

\* q1 = units.Quantity(value, dimension)
Construct ==
    /\ \E c \in Constructed :
          quantities' = [quantities EXCEPT ![1] = NewQuantity(c[1], c[2])]
    /\ parsed' = [parsed EXCEPT ![1] = NoNumber("")]
    /\ answer' = [NoAnswer EXCEPT !.op = "new", !.slot = 1]
    /\ UNCHANGED <<tvars, dvars>>

\* q2 = units.Quantity(value, dimension), the quantity q1 is compared with.
ConstructOther ==
    /\ \E c \in Compared :
          quantities' = [quantities EXCEPT ![2] = NewQuantity(c[1], c[2])]
    /\ answer' = [NoAnswer EXCEPT !.op = "new", !.slot = 2]
    /\ UNCHANGED <<parsed, tvars, dvars>>

\* q1 = units.Quantity.from_string(string)
FromString ==
    /\ \E t \in Strings :
          LET r == from_string(t) IN
          /\ quantities' = IF r.raised = "none" THEN [quantities EXCEPT ![1] = r.q]
                           ELSE quantities
          /\ parsed' = IF r.raised = "none" THEN [parsed EXCEPT ![1] = t] ELSE parsed
          /\ answer' = [NoAnswer EXCEPT !.op = "from_string", !.slot = 1,
                                        !.raised = r.raised, !.text = t]
    /\ UNCHANGED <<tvars, dvars>>

\* q1.original_prefix = None
ClearPrefix ==
    /\ quantities[1].original_prefix # None
    /\ quantities' = [quantities EXCEPT ![1].original_prefix = None]
    /\ answer' = [NoAnswer EXCEPT !.op = "clear", !.slot = 1]
    /\ UNCHANGED <<parsed, tvars, dvars>>

\* str(q1)
Str ==
    /\ answer' = [NoAnswer EXCEPT !.op = "str", !.slot = 1,
                                  !.text = to_string(quantities[1])]
    /\ UNCHANGED <<quantities, parsed, tvars, dvars>>

\* q1 op q2
Compare ==
    /\ \E op \in Operators :
          LET r == compare(op, quantities[1], quantities[2]) IN
          answer' = [NoAnswer EXCEPT !.op = op, !.raised = r.raised, !.bool = r.bool]
    /\ UNCHANGED <<quantities, parsed, tvars, dvars>>

UnitsNext ==
    \/ Construct
    \/ ConstructOther
    \/ FromString
    \/ ClearPrefix
    \/ Str
    \/ Compare

UnitsSpec == UnitsInit /\ [][UnitsNext]_vars

(***************************************************************************)
(* The instruments of a caller.                                            *)
(***************************************************************************)
Device == [written |-> written, thrown |-> "none"]

\* Both instruments are connected.
DevicesInit ==
    /\ prog = <<>>
    /\ Fresh
    /\ NoQuantities
    /\ written = Connected.written
    /\ thrown = "none"
    /\ lastset = NoSet
    /\ calls = 0

Assigned(r, dev, attr, value) ==
    /\ calls < MaxCalls
    /\ written' = r.written
    /\ thrown' = r.thrown
    /\ lastset' = [dev |-> dev, attr |-> attr, value |-> value]
    /\ calls' = calls + 1
    /\ UNCHANGED <<tvars, uvars>>

SetIntegrationTime ==
    \E v \in Settings : Assigned(integration_time(Device, v), DM, "integration_time", v)

SetAutoZero ==
    \E v \in Settings : Assigned(auto_zero(Device, v), DM, "auto_zero", v)

SetStopafter ==
    \E v \in Settings : Assigned(stopafter(Device, v), DPO, "stopafter", v)

DevicesNext ==
    \/ SetIntegrationTime
    \/ SetAutoZero
    \/ SetStopafter

DevicesSpec == DevicesInit /\ [][DevicesNext]_vars

(***************************************************************************)
(* Properties                                                              *)
(***************************************************************************)
DeclIdx == {i \in DOMAIN prog : prog[i].t = "decl"}
DeclaredNames == {prog[i].name : i \in DeclIdx}
FirstDecl(n) == CHOOSE i \in DeclIdx :
                  /\ prog[i].name = n
                  /\ \A j \in DeclIdx : prog[j].name = n => i <= j
\* Declarations of a name that an earlier declaration already introduced.
ExtraDecls == {i \in DeclIdx : FirstDecl(prog[i].name) # i}
ValidDeclarations == ExtraDecls = {}
ExpectedVariables ==
    [n \in DeclaredNames \cup {AcqMarker} |->
        IF n \in DeclaredNames THEN prog[FirstDecl(n)].kind ELSE "acq_marker"]

DeclarationsStep == lastop' = "traverse" /\ stage' = "declarations"
NewErrors == SubSeq(errors', Len(errors) + 1, Len(errors'))

\* C1: on a program without re-declarations the declarations stage leaves
\* env.variables equal to {declared name -> declared kind} plus
\* '_acq_marker' -> 'acq_marker' and records no error (none at all on a
\* fresh Environment); running the stage again gives the same mapping.
C1_DeclarationsExact ==
    [][ (DeclarationsStep /\ ValidDeclarations) =>
          /\ variables' = ExpectedVariables
          /\ errors' = errors
          /\ (lastop = "new" => errors' = <<>>)
          /\ ("declarations" \in done => variables' = variables) ]_vars

C1_Witness ==
    /\ lastop = "traverse" /\ stage = "declarations"
    /\ "declarations" \in before
    /\ ValidDeclarations
    /\ Cardinality(DOMAIN variables) = 8
    /\ variables["pqr2"] = "output"
    /\ variables[AcqMarker] = "acq_marker"
    /\ errors = <<>>

\* C2: every declaration of an already declared name appends exactly one
\* "Re-declaration" error and the name keeps its first kind; the traversal
\* goes on, so names first declared later are inserted: k extra
\* declarations give exactly k errors.
C2_Redeclaration ==
    [][ DeclarationsStep =>
          /\ Len(errors') = Len(errors) + Cardinality(ExtraDecls)
          /\ SubSeq(errors', 1, Len(errors)) = errors
          /\ \A k \in DOMAIN NewErrors :
                /\ NewErrors[k].msg = "Re-declaration"
                /\ \E i \in ExtraDecls : NewErrors[k].at = <<prog[i].name>>
          /\ \A i \in ExtraDecls :
                \E k \in DOMAIN NewErrors : NewErrors[k].at = <<prog[i].name>>
          /\ variables' = ExpectedVariables ]_vars

C2_Witness ==
    /\ lastop = "traverse" /\ stage = "declarations"
    /\ Cardinality(ExtraDecls) = 2
    /\ Len(errors) = 2
    /\ errors[1] = Error("Re-declaration", <<"abc1">>)
    /\ errors[2] = Error("Re-declaration", <<"def2">>)
    /\ variables["def2"] = "delay"
    /\ "stu3" \in DOMAIN variables

NamesOfKind(kind) == {n \in DOMAIN variables : variables[n] = kind}
\* The attribute paths the language requires of the declared variables.
RequiredByKind ==
    {<<n>> : n \in NamesOfKind("delay")}
    \cup {<<n, a>> : n \in NamesOfKind("pulse"), a \in {"shape", "length", "amplitude"}}
    \cup {<<n, a>> : n \in NamesOfKind("acq_marker"), a \in {"num", "output"}}

\* C3: once the values stage has run, env.missing_values is exactly the
\* set of required attribute paths with no value in env.values, and a
\* set_value that succeeds binds env.values[path] and takes the path out of
\* missing_values.
C3_MissingValuesExact ==
    /\ "values" \in done =>
          missing_values = {p \in RequiredByKind : p \notin DOMAIN values}
    /\ (lastop = "set_value" /\ raised = "none"
          /\ Validate(variables, lastarg[1], lastarg[2]) = "ok") =>
          /\ lastarg[1] \in DOMAIN values
          /\ values[lastarg[1]] = lastarg[2]
          /\ lastarg[1] \notin missing_values

C3_Witness ==
    /\ "values" \in done
    /\ lastop = "set_value" /\ raised = "none"
    /\ lastarg[1] = <<"jkl2", "length">>
    /\ {<<"jkl2", a>> : a \in {"shape", "length", "amplitude"}} \subseteq DOMAIN values
    /\ \A p \in missing_values : p[1] # "jkl2"
    /\ <<AcqMarker, "num">> \in missing_values
    /\ patches = 2

ValuesStep == lastop' = "traverse" /\ stage' = "values"
MustAssignPaths(errs) == {errs[k].at : k \in {j \in DOMAIN errs : errs[j].msg = "Must assign"}}
\* The paths the program assigns a value to.
AssignedPaths ==
    {prog[i].target : i \in {j \in DOMAIN prog : prog[j].t = "assign"}}
    \cup UNION {{<<prog[i].name>> \o prog[i].binds[k].attr : k \in DOMAIN prog[i].binds} : i \in DeclIdx}

\* C4 as stated: at the end of the values stage the paths with a
\* "Must assign" error are exactly env.missing_values.
C4_MustAssignIsMissing ==
    (lastop = "traverse" /\ stage = "values") => MustAssignPaths(errors) = missing_values

\* C4 amended: at the end of the values stage every required attribute that
\* is still unbound is in env.missing_values and no error is recorded for
\* it: every error the stage appends, "Must assign" included, is at a path
\* the program assigns to.
C4_MissingWithoutError ==
    [][ ValuesStep =>
          /\ missing_values' = {p \in RequiredByKind : p \notin DOMAIN values'}
          /\ \A k \in DOMAIN NewErrors : NewErrors[k].at \in AssignedPaths
          /\ MustAssignPaths(NewErrors) \cap (missing_values' \ AssignedPaths) = {} ]_vars

C4_Witness ==
    /\ lastop = "traverse" /\ stage = "values"
    /\ errors = <<>>
    /\ <<"def2">> \in missing_values
    /\ <<"jkl2", "length">> \in missing_values
    /\ <<"ghi1", "length">> \in DOMAIN values

AssignIdx == {i \in DOMAIN prog : prog[i].t = "assign"}
UndeclaredAssigns == {i \in AssignIdx : prog[i].target[1] \notin DOMAIN variables}

\* C5: set_value on a path whose base name is not declared raises KeyError
\* and changes nothing of env.errors, env.values and env.missing_values;
\* the values-stage traversal records one "Undeclared" error for such a
\* target and goes on to the assignments after it.
C5_UndeclaredRaisesOrRecords ==
    [][ /\ (lastop' = "set_value" /\ lastarg'[1][1] \notin DOMAIN variables) =>
              /\ raised' = "KeyError"
              /\ errors' = errors
              /\ values' = values
              /\ missing_values' = missing_values
        /\ ValuesStep =>
              /\ raised' = "none"
              /\ Cardinality({k \in DOMAIN NewErrors : NewErrors[k].msg = "Undeclared"})
                    = Cardinality(UndeclaredAssigns)
              /\ \A i \in UndeclaredAssigns :
                    /\ \E k \in DOMAIN NewErrors : NewErrors[k] = Error("Undeclared", prog[i].target)
                    /\ \A j \in AssignIdx :
                          (j > i /\ Validate(variables, prog[j].target, prog[j].val) = "ok")
                             => prog[j].target \in DOMAIN values' ]_vars

C5_Witness ==
    /\ lastop = "set_value" /\ raised = "KeyError"
    /\ lastarg[1] = <<"xyz">>
    /\ "values" \in done
    /\ \E k \in DOMAIN errors : errors[k] = Error("Undeclared", <<"zzz1">>)
    /\ <<"jkl2", "length">> \in DOMAIN values
    /\ <<"xyz">> \notin DOMAIN values

CommandNodes == SelectSeq(prog, IsCommand)

BranchNames(b) == {b.items[k].name : k \in {j \in DOMAIN b.items : b.items[j].isname}}

\* Names of the delays and pulses the timeline plays.
RECURSIVE RefNames(_)
RefNames(nodes) ==
    IF nodes = <<>> THEN {}
    ELSE LET n == Head(nodes) IN
         (CASE n.t = "sequence" -> UNION {BranchNames(n.branches[b]) : b \in DOMAIN n.branches}
            [] n.t = "loop" -> RefNames(n.body)
            [] OTHER -> {})
         \cup RefNames(Tail(nodes))

\* Names of the variables used as repetition counts.
RECURSIVE CountNames(_)
CountNames(nodes) ==
    IF nodes = <<>> THEN {}
    ELSE LET n == Head(nodes) IN
         (IF n.t = "loop"
          THEN (IF n.count.isname THEN {n.count.name} ELSE {}) \cup CountNames(n.body)
          ELSE {})
         \cup CountNames(Tail(nodes))

\* Outputs some pulse sequence of the timeline plays on.
RECURSIVE Targeted(_)
Targeted(nodes) ==
    IF nodes = <<>> THEN {}
    ELSE LET n == Head(nodes) IN
         (CASE n.t = "sequence" -> UNION {Range(n.branches[b].outputs) : b \in DOMAIN n.branches}
            [] n.t = "loop" -> Targeted(n.body)
            [] OTHER -> {})
         \cup Targeted(Tail(nodes))

RECURSIVE HasAcquire(_)
HasAcquire(nodes) ==
    /\ nodes # <<>>
    /\ \/ Head(nodes).t = "acquire"
       \/ Head(nodes).t = "loop" /\ HasAcquire(Head(nodes).body)
       \/ HasAcquire(Tail(nodes))

IsBound(n) ==
    CASE KindOf(variables, n) = "delay" -> <<n>> \in DOMAIN values
      [] KindOf(variables, n) = "pulse" ->
            \A a \in {"shape", "length", "amplitude"} : <<n, a>> \in DOMAIN values
      [] OTHER -> TRUE

\* A delay or pulse of the timeline has no value.
Unbound == \E n \in RefNames(CommandNodes) : ~IsBound(n)

\* The timeline passes the commands stage and all that it needs is bound.
Renderable ==
    /\ ~Unbound
    /\ CommandsWalk([Env EXCEPT !.errors = <<>>, !.acquisition = FALSE], CommandNodes).errors = <<>>
    /\ \A n \in CountNames(CommandNodes) : <<n>> \in DOMAIN values
    /\ HasAcquire(CommandNodes) =>
          /\ {<<AcqMarker, "num">>, <<AcqMarker, "output">>} \subseteq DOMAIN values
          /\ KindOf(variables, values[<<AcqMarker, "output">>].s) = "output"

WaveformsStep == lastop' = "traverse" /\ stage' = "waveforms"

\* C6: the waveforms stage is fatal: with a delay or pulse of the timeline
\* unbound the traversal raises ValueError, appends nothing to env.errors and
\* leaves no Waveform in env.waveforms; once the caller has bound what was
\* missing, the waveforms stage run again alone succeeds.
C6_WaveformsFatal ==
    [][ WaveformsStep =>
          /\ Unbound =>
                /\ raised' = "ValueError"
                /\ errors' = errors
                /\ waveforms' = Empty
                /\ "waveforms" \in failed'
          /\ Renderable =>
                /\ raised' = "none"
                /\ errors' = errors
                /\ DOMAIN waveforms' = NamesOfKind("output") ]_vars

C6_Witness ==
    /\ lastop = "traverse" /\ stage = "waveforms" /\ raised = "none"
    /\ "waveforms" \in failed
    /\ before = {"declarations", "values", "commands"}
    /\ patches >= 1
    /\ <<"def2">> \in DOMAIN values
    /\ <<"def2">> \notin AssignedPaths
    /\ DOMAIN waveforms = {"mno1", "pqr2"}

StageIndex(s) == CHOOSE i \in DOMAIN stages : stages[i] = s

WaveformsDone == lastop = "traverse" /\ stage = "waveforms" /\ raised = "none"

RECURSIVE AcquireInLoop(_)
AcquireInLoop(nodes) ==
    /\ nodes # <<>>
    /\ \/ Head(nodes).t = "loop" /\ HasAcquire(Head(nodes).body)
       \/ AcquireInLoop(Tail(nodes))

TopAcquires == {i \in DOMAIN CommandNodes : CommandNodes[i].t = "acquire"}
FirstAcquire == CHOOSE i \in TopAcquires : \A j \in TopAcquires : i <= j
AcqOutput == values[<<AcqMarker, "output">>].s
Rendered(nodes) == WaveformsWalk(Env, StartRender(variables), nodes)
\* Samples written to the acquisition output when acquire is reached.
Cursor == Len(Rendered(SubSeq(CommandNodes, 1, FirstAcquire - 1)).wave[AcqOutput])
NotAcquire(node) == node.t # "acquire"
TrueAt(marker) == {i \in DOMAIN marker : marker[i]}

\* The case of C8: the waveforms stage has rendered a timeline whose
\* acquire is at its top level, with num = 1.
AcquireRendered ==
    /\ WaveformsDone
    /\ TopAcquires # {}
    /\ ~AcquireInLoop(CommandNodes)
    /\ values[<<AcqMarker, "num">>].n = 1

\* C8 as stated: marker1 of the acquisition output has exactly one true
\* entry, at the index of the cursor when acquire was reached.
C8_OneMarkerSample ==
    AcquireRendered =>
        TrueAt(waveforms[AcqOutput].marker1) = {Cursor + 1}

\* C8 amended: marker1 of the acquisition output is false at every index
\* before the cursor at which acquire was reached and true at every index
\* from there to the end of the Waveform; marker1 of every other output is
\* all false and acquire itself adds no sample.
C8_MarkerFromAcquire ==
    AcquireRendered =>
        /\ TrueAt(waveforms[AcqOutput].marker1)
              = {i \in DOMAIN waveforms[AcqOutput].wave : i > Cursor}
        /\ \A o \in DOMAIN waveforms \ {AcqOutput} : TrueAt(waveforms[o].marker1) = {}
        /\ \A o \in DOMAIN waveforms :
              waveforms[o].wave = Rendered(SelectSeq(CommandNodes, NotAcquire)).wave[o]

C8_Witness ==
    /\ AcquireRendered
    /\ AcqOutput = "mno1"
    /\ Len(waveforms["mno1"].wave) = 27
    /\ Cursor = 25
    /\ TrueAt(waveforms["mno1"].marker1) = {26, 27}

\* C9: after a successful waveforms stage every declared output has a
\* Waveform, all Waveforms have the same number of samples, wave, marker1
\* and marker2 of a Waveform have that length, an output no command plays
\* on is all zero, and marker2 is all false.
C9_EqualLengths ==
    WaveformsDone =>
        /\ DOMAIN waveforms = NamesOfKind("output")
        /\ \A o \in DOMAIN waveforms :
              /\ \A p \in DOMAIN waveforms : Len(waveforms[o].wave) = Len(waveforms[p].wave)
              /\ Len(waveforms[o].marker1) = Len(waveforms[o].wave)
              /\ Len(waveforms[o].marker2) = Len(waveforms[o].wave)
              /\ TrueAt(waveforms[o].marker2) = {}
              /\ o \notin Targeted(CommandNodes) =>
                    \A i \in DOMAIN waveforms[o].wave : waveforms[o].wave[i] = 0

C9_Witness ==
    /\ WaveformsDone
    /\ Targeted(CommandNodes) = {"pqr2"}
    /\ waveforms["mno1"].wave = <<0, 0, 0, 0, 0>>
    /\ waveforms["pqr2"].wave = <<0, 0, 1000, 1000, 0>>
    /\ Len(waveforms["mno1"].marker2) = 5

\* The timeline with every times block written out count times.
RECURSIVE Unrolled(_)
Unrolled(nodes) ==
    IF nodes = <<>> THEN <<>>
    ELSE LET n == Head(nodes) IN
         (IF n.t = "loop" THEN Repeat(Unrolled(n.body), CountValue(Env, n.count)) ELSE <<n>>)
         \o Unrolled(Tail(nodes))

TopLoops == {i \in DOMAIN CommandNodes : CommandNodes[i].t = "loop"}
LengthAfter(i, o) == Len(Rendered(SubSeq(CommandNodes, 1, i)).wave[o])

\* C10: the samples a times N block adds to an output are the samples of
\* one iteration of its body N times over: none for N = 0, twice the count
\* of one iteration for N = 2, for every output alike.
C10_TimesRepeats ==
    (WaveformsDone /\ TopLoops # {}) =>
        \A o \in DOMAIN waveforms :
           /\ waveforms[o].wave = Rendered(Unrolled(CommandNodes)).wave[o]
           /\ \A i \in TopLoops :
                 LengthAfter(i, o) = LengthAfter(i - 1, o)
                    + CountValue(Env, CommandNodes[i].count)
                        * Len(Rendered(CommandNodes[i].body).wave[o])

C10_Witness ==
    /\ WaveformsDone
    /\ \E i \in TopLoops : CommandNodes[i].count = CountLit(0)
    /\ \E i \in TopLoops : CommandNodes[i].count = CountLit(2)
    /\ waveforms["mno1"].wave = <<1000, 1000, 0, 1000, 1000, 0, 1000, 1000, 0>>
    /\ waveforms["pqr2"].wave = <<0, 0, 0, 0, 0, 0, 0, 0, 0>>

(***************************************************************************)
(* The commands stage, check by check.                                     *)
(***************************************************************************)
\* One check of the commands stage: acq marks an acquire, msg is the
\* violation the check finds on its own account ("" when it finds none).
Check(acq, msg) == [acq |-> acq, msg |-> msg]

ItemCheck(item) ==
    Check(FALSE,
          IF item.isname
          THEN (IF item.name \in NamesOfKind("delay") \cup NamesOfKind("pulse")
                THEN "" ELSE "Not a declared delay or pulse")
          ELSE (IF item.val.ty = "quantity" /\ item.val.dim = "time"
                THEN "" ELSE "Delay must be a time"))

OutputCheck(o) ==
    Check(FALSE, IF o \in NamesOfKind("output") THEN "" ELSE "Not a declared output")

CountCheck(c) ==
    Check(FALSE,
          IF c.isname
          THEN (IF c.name \in NamesOfKind("int") THEN "" ELSE "Repetition count must be int")
          ELSE (IF c.n < 0 THEN "Repetition count must be non-negative" ELSE ""))

RECURSIVE BranchChecks(_)
BranchChecks(bs) ==
    IF bs = <<>> THEN <<>>
    ELSE [k \in DOMAIN Head(bs).items |-> ItemCheck(Head(bs).items[k])]
         \o [k \in DOMAIN Head(bs).outputs |-> OutputCheck(Head(bs).outputs[k])]
         \o BranchChecks(Tail(bs))

\* The checks of a timeline in the order the program text gives them,
\* the body of a times block right after its count.
RECURSIVE Timeline(_)
Timeline(nodes) ==
    IF nodes = <<>> THEN <<>>
    ELSE LET n == Head(nodes) IN
         (CASE n.t = "sequence" -> BranchChecks(n.branches)
            [] n.t = "loop" -> <<CountCheck(n.count)>> \o Timeline(n.body)
            [] n.t = "acquire" -> <<Check(TRUE, "")>>
            [] OTHER -> <<>>)
         \o Timeline(Tail(nodes))

\* Every check with the message it must record: an acquire that has an
\* acquire before it is repeated.
Verdicts ==
    LET tl == Timeline(CommandNodes) IN
    [i \in DOMAIN tl |->
        IF tl[i].acq
        THEN (IF \E j \in 1..(i - 1) : tl[j].acq THEN "Repeated acquire" ELSE "")
        ELSE tl[i].msg]

Violations == SelectSeq(Verdicts, LAMBDA m : m # "")
Acquires == {i \in DOMAIN Timeline(CommandNodes) : Timeline(CommandNodes)[i].acq}

CommandsStep == lastop' = "traverse" /\ stage' = "commands"

\* C13: the commands stage accepts one acquire: the first acquire of the
\* timeline, at top level or in a times body, sets env.acquisition and
\* records nothing, every later acquire records one error; each violation
\* of the stage records exactly one error, the errors come in timeline
\* order, and the stage completes whatever it found.
C13_OneErrorPerViolation ==
    [][CommandsStep =>
         /\ Len(NewErrors) = Len(Violations)
         /\ \A k \in DOMAIN Violations : NewErrors[k].msg = Violations[k]
         /\ Cardinality({k \in DOMAIN NewErrors : NewErrors[k].msg = "Repeated acquire"})
               = IF Acquires = {} THEN 0 ELSE Cardinality(Acquires) - 1
         /\ acquisition' = (Acquires # {})
         /\ SubSeq(errors', 1, Len(errors)) = errors
         /\ raised' = "none"
         /\ "commands" \in done']_vars

\* The timeline of InvalidTreeTest.testCommands has been checked: three
\* acquires, the first of them in a times body, and five errors.
C13_Witness ==
    /\ lastop = "traverse" /\ stage = "commands"
    /\ Cardinality(Acquires) = 3
    /\ AcquireInLoop(CommandNodes)
    /\ acquisition
    /\ [k \in DOMAIN errors |-> errors[k].msg]
          = <<"Not a declared delay or pulse", "Repeated acquire",
              "Repetition count must be int", "Repeated acquire",
              "Delay must be a time">>
    /\ "commands" \in done

(***************************************************************************)
(* Quantities                                                              *)
(***************************************************************************)
\* Both values as whole numbers of a common power of ten, when they fit.
Commensurate(x, y) ==
    /\ Abs(x.e - y.e) <= 8
    /\ Digits(Abs(x.m)) + Abs(x.e - y.e) <= 9
    /\ Digits(Abs(y.m)) + Abs(x.e - y.e) <= 9
Common(x, y) == IF x.e < y.e THEN x.e ELSE y.e
Whole(x, e) == x.m * Pow10(x.e - e)

\* The answer an operator gives on two numbers.
Holds(op, m, n) ==
    CASE op = "==" -> m = n
      [] op = "!=" -> m # n
      [] op = "<" -> m < n
      [] op = "<=" -> m <= n
      [] op = ">" -> m > n
      [] op = ">=" -> m >= n

Compared12 == answer.op \in Operators

\* C11: each of ==, !=, <, <=, >, >= on two Quantities of different
\* dimensions fails with IncompatibleDimensions and returns nothing; on
\* equal dimensions it returns the comparison of the two stored values,
\* whatever prefix either was written with.
C11_ComparisonChecksDimension ==
    Compared12 =>
       LET a == quantities[1]
           b == quantities[2]
       IN /\ a.dimension # b.dimension =>
                answer.raised = "IncompatibleDimensions"
          /\ a.dimension = b.dimension =>
                /\ answer.raised = "none"
                /\ answer.bool = Holds(answer.op, Cmp(a.value, b.value), 0)
                /\ Commensurate(a.value, b.value) =>
                      answer.bool = Holds(answer.op,
                                          Whole(a.value, Common(a.value, b.value)),
                                          Whole(b.value, Common(a.value, b.value)))
                /\ (answer.op = "==" /\ a.value = b.value) => answer.bool
                /\ (answer.op = "!=" /\ a.value = b.value) => ~answer.bool

\* '1000 ms' has been compared with a frequency, and the comparison failed.
C11_Witness ==
    /\ Compared12
    /\ parsed[1] = Text(Dec(1000, 0), "ms")
    /\ quantities[1].original_prefix = "m"
    /\ quantities[1].value = Dec(1, 0)
    /\ quantities[2] = NewQuantity(Dec(1, 0), "frequency")
    /\ answer.op = "=="
    /\ answer.raised = "IncompatibleDimensions"

\* '1000 ms' == Quantity(1, time)
C11_SamePrefixless ==
    /\ Compared12
    /\ quantities[1].original_prefix = "m"
    /\ quantities[1].value = Dec(1, 0)
    /\ quantities[2] = NewQuantity(Dec(1, 0), "time")
    /\ answer.op = "=="
    /\ answer.raised = "none" /\ answer.bool

Formatted == answer.op = "str"

\* str() of the quantities of testStrKeepPrefix that have no prefix kept.
KeepPrefixRows ==
    << <<Dec(1234, 0), "time", Text(Dec(1234, 0 - 3), "ks")>>,
       <<Dec(1234, 0 - 9), "time", Text(Dec(1234, 0 - 3), "us")>> >>

Rows == data \o KeepPrefixRows

\* C12 as stated: the text of a non-zero value without original_prefix has
\* an absolute mantissa in [1, 1000).
C12_MantissaInRange ==
    (Formatted /\ quantities[1].original_prefix = None /\ quantities[1].value.m # 0) =>
        Order10(answer.text.num) \in 0..2

\* C12, amended: zero is written without prefix; a parsed non-zero quantity
\* is written with the prefix of its text, and so as the text it was
\* parsed from; without original_prefix, cleared or never set, the text is
\* the one QuantityTest.data and testStrKeepPrefix give, whose mantissa can
\* lie outside [1, 1000); the text always reads back as the value.
C12_PrefixKeptOrByMagnitude ==
    Formatted =>
       LET x == quantities[1]
           t == answer.text
           u == units_[x.dimension]
       IN /\ t.hasnum
          /\ from_string(t).raised = "none"
          /\ from_string(t).q.value = x.value
          /\ from_string(t).q.dimension = x.dimension
          /\ x.value.m = 0 => t = Text(Dec(0, 0), u)
          /\ (x.value.m # 0 /\ x.original_prefix # None) =>
                /\ t.sym = x.original_prefix \o u
                /\ t = parsed[1]
          /\ x.original_prefix = None =>
                /\ t = to_string(NewQuantity(x.value, x.dimension))
                /\ \A i \in DOMAIN Rows :
                      (Rows[i][1] = x.value /\ Rows[i][2] = x.dimension) => t = Rows[i][3]

\* '1234 ns' was parsed, its prefix cleared, and str() gave '1.234 us'.
C12_Witness ==
    /\ Formatted
    /\ parsed[1] = Text(Dec(1234, 0), "ns")
    /\ quantities[1].original_prefix = None
    /\ answer.text = Text(Dec(1234, 0 - 3), "us")

\* '1234 ns' was parsed and str() gave '1234 ns'.
C12_KeptPrefix ==
    /\ Formatted
    /\ parsed[1] = Text(Dec(1234, 0), "ns")
    /\ quantities[1].original_prefix = "n"
    /\ answer.text = Text(Dec(1234, 0), "ns")

(***************************************************************************)
(* Instruments                                                             *)
(***************************************************************************)
\* The numbers the multimeter integrates over, in thousandths of a cycle.
Nplc == {6, 20, 60, 200, 1000, 2000, 10000, 100000}

\* The settings each attribute admits.
Admits(attr, v) ==
    CASE attr = "integration_time" -> v.ty # "str" /\ v.n \in Nplc
      [] attr = "auto_zero" -> v.ty = "str" /\ v.s \in {"off", "on", "once"}
      [] attr = "stopafter" -> v.ty = "str" /\ v.s \in {"runstop", "sequence"}

\* The command each attribute is set with.
Header(attr) ==
    CASE attr = "integration_time" -> "sense:voltage:dc:nplc "
      [] attr = "auto_zero" -> "sense:voltage:dc:zero:auto "
      [] attr = "stopafter" -> "acquire:stopafter "

AssignStep == calls' = calls + 1

\* C14: assigning integration_time, auto_zero or stopafter a value that is
\* not among the allowed ones raises ValueError and writes nothing to any
\* instrument; assigning an allowed value raises nothing and writes to
\* the instrument of the attribute exactly one command, the attribute's
\* command followed by the value.
C14_ValidatedSetters ==
    [][AssignStep =>
         LET s == lastset' IN
         /\ s.attr \in Attributes
         /\ ~Admits(s.attr, s.value) =>
               /\ thrown' = "ValueError"
               /\ written' = written
         /\ Admits(s.attr, s.value) =>
               /\ thrown' = "none"
               /\ Len(written'[s.dev]) = Len(written[s.dev]) + 1
               /\ SubSeq(written'[s.dev], 1, Len(written[s.dev])) = written[s.dev]
               /\ written'[s.dev][Len(written'[s.dev])] = Header(s.attr) \o Format(s.value)
               /\ \A d \in Devices \ {s.dev} : written'[d] = written[d]]_vars

\* The multimeter was sent an integration time of 0.006 cycles, then
\* 'ON' was refused as its auto zero state.
C14_Witness ==
    /\ calls = 2
    /\ written[DM] = <<"*rst", "configure:voltage:dc", "sense:voltage:dc:nplc 0.006">>
    /\ written[DPO] = <<"*rst", "autoset execute", "acquire:stopafter sequence">>
    /\ lastset = [dev |-> DM, attr |-> "auto_zero", value |-> PyStr("ON")]
    /\ thrown = "ValueError"

====
